---------------------------- MODULE Spec2Model ----------------------------
(***************************************************************************)
(* A model of the schedule-sync pipeline: SourceDownloader                 *)
(* (src/src/downloader.py), XmlTimeAdjuster (src/src/xml_handler.py),      *)
(* the config helpers (src/src/utils.py) and ScheduleProcessor             *)
(* (src/src/processor.py).                                                 *)
(*                                                                         *)
(* The specifications of the module:                                       *)
(*   Spec       the pipeline: successive invocations of                    *)
(*              ScheduleProcessor.run over one data directory, step by     *)
(*              step, with the filesystem and the environment's faults;    *)
(*   SpecReader the pipeline beside a reader of the well-known output;     *)
(*   SpecHeal   the pipeline in a data directory whose extracted document  *)
(*              can disappear between runs;                                *)
(*   SpecXml    the XML engine alone: process_xml over a document and a    *)
(*              channel configuration drawn from bounded sets;             *)
(*   SpecShift  the adjustment of one timestamp text, once, twice and by   *)
(*              the sum of two offsets.                                    *)
(***************************************************************************)
EXTENDS Integers, Sequences, FiniteSets, TLC

(***************************************************************************)
(* Bounds of the model.                                                    *)
(***************************************************************************)
\* programme elements per document drawn in SpecXml
MaxProgs == 2
\* channel elements per document drawn in SpecXml
MaxChans == 2
\* seconds of wall-clock time the pipeline runs are spread over
MaxClock == 2
\* largest max_backup_files the pipeline configurations use
MaxBackup == 2
\* chunks a copy of the compressed artifact is written in
FileChunks == 2
\* faults of the environment (a failed request, a corrupt download, a failed
\* write, link or removal) one behaviour of the pipeline meets
MaxFaults == 1
\* half-minutes the offsets drawn in SpecShift reach, either way
MaxShift == 2

(***************************************************************************)
(* Timestamps.  An attribute text is                                       *)
(*   kind "ts"     fourteen digits YYYYMMDDHHMMSS, given by their fields,   *)
(*                 followed by " " and the zone token unless zone = "";    *)
(*   kind "junk"   a text holding a character that is no digit;            *)
(*   kind "empty"  the attribute is absent or the empty string.            *)
(* A datetime is a proleptic Gregorian day ordinal (0001-01-01 is 1) and   *)
(* the second of that day, as Python's datetime keeps it.                  *)
(***************************************************************************)
Ts(y, mo, d, h, mi, s, zone) ==
    [kind |-> "ts", y |-> y, mo |-> mo, d |-> d, h |-> h, mi |-> mi, s |-> s,
     zone |-> zone]

JunkText == [kind |-> "junk", y |-> 0, mo |-> 0, d |-> 0, h |-> 0, mi |-> 0,
             s |-> 0, zone |-> ""]

EmptyText == [kind |-> "empty", y |-> 0, mo |-> 0, d |-> 0, h |-> 0, mi |-> 0,
              s |-> 0, zone |-> ""]

NoneDT == [ok |-> FALSE, ord |-> 0, sec |-> 0]

IsLeap(y) == (y % 4 = 0) /\ ((y % 100 # 0) \/ (y % 400 = 0))

DaysInMonth(y, m) ==
    IF m = 2 THEN (IF IsLeap(y) THEN 29 ELSE 28)
    ELSE IF m \in {4, 6, 9, 11} THEN 30 ELSE 31

RECURSIVE DaysBeforeMonth(_, _)
DaysBeforeMonth(y, m) ==
    IF m <= 1 THEN 0 ELSE DaysBeforeMonth(y, m - 1) + DaysInMonth(y, m - 1)

DaysBeforeYear(y) ==
    (y - 1) * 365 + ((y - 1) \div 4) - ((y - 1) \div 100) + ((y - 1) \div 400)

\* date.toordinal
ToOrdinal(y, m, d) == DaysBeforeYear(y) + DaysBeforeMonth(y, m) + d

\* date.max.toordinal(): 9999-12-31
MaxOrdinal == ToOrdinal(9999, 12, 31)

RECURSIVE MonthOfYearDay(_, _, _)
MonthOfYearDay(y, m, n) ==
    IF n <= DaysInMonth(y, m) THEN <<m, n>>
    ELSE MonthOfYearDay(y, m + 1, n - DaysInMonth(y, m))

\* date.fromordinal: the 400-, 100-, 4- and 1-year cycles
FromOrdinal(ord) ==
    LET n0   == ord - 1
        n400 == n0 \div 146097
        r400 == n0 % 146097
        n100 == r400 \div 36524
        r100 == r400 % 36524
        n4   == r100 \div 1461
        r4   == r100 % 1461
        n1   == r4 \div 365
        r1   == r4 % 365
        year == n400 * 400 + n100 * 100 + n4 * 4 + n1 + 1
    IN  IF n1 = 4 \/ n100 = 4
          THEN <<year - 1, 12, 31>>
          ELSE LET md == MonthOfYearDay(year, 1, r1 + 1)
               IN  <<year, md[1], md[2]>>

\* datetime.strptime(dt_part, "%Y%m%d%H%M%S") on fourteen digits: every
\* field takes its full width, and the datetime constructor checks the ranges
FieldsValid(t) ==
    /\ t.y \in 1..9999
    /\ t.mo \in 1..12
    /\ t.d >= 1 /\ t.d <= DaysInMonth(t.y, t.mo)
    /\ t.h \in 0..23
    /\ t.mi \in 0..59
    /\ t.s \in 0..59

\* the mutation: the zone token is applied, +0100 is an hour ahead of UTC
parse_datetime_zoned(t) ==
    IF t.kind = "ts" /\ FieldsValid(t)
      THEN [ok |-> TRUE, ord |-> ToOrdinal(t.y, t.mo, t.d),
            sec |-> (IF t.zone = "+0100" /\ t.h >= 1 THEN t.h - 1 ELSE t.h) * 3600
                    + t.mi * 60 + t.s]
      ELSE NoneDT

\* XmlTimeAdjuster.parse_datetime: the zone token after the first space is
\* dropped; a ValueError gives None
parse_datetime(t) ==
    IF t.kind = "ts" /\ FieldsValid(t)
      THEN [ok |-> TRUE, ord |-> ToOrdinal(t.y, t.mo, t.d),
            sec |-> t.h * 3600 + t.mi * 60 + t.s]
      ELSE NoneDT

\* the mutation: the seconds are not written
format_datetime_minutes(dt) ==
    [kind |-> "ts", y |-> FromOrdinal(dt.ord)[1], mo |-> FromOrdinal(dt.ord)[2],
     d |-> FromOrdinal(dt.ord)[3], h |-> dt.sec \div 3600,
     mi |-> (dt.sec % 3600) \div 60, s |-> 0, zone |-> "+0000"]

\* XmlTimeAdjuster.format_datetime: strftime("%Y%m%d%H%M%S +0000"); the
\* model's datetimes have four-digit years (1000..9999)
format_datetime(dt) ==
    LET ymd == FromOrdinal(dt.ord)
    IN  Ts(ymd[1], ymd[2], ymd[3], dt.sec \div 3600, (dt.sec % 3600) \div 60,
           dt.sec % 60, "+0000")

\* the mutation: a negative offset moves nothing
AddSeconds_forward(dt, offset) ==
    IF offset < 0 THEN [ok |-> TRUE, ord |-> dt.ord, sec |-> dt.sec]
    ELSE IF dt.ord + ((dt.sec + offset) \div 86400) > MaxOrdinal
      THEN [ok |-> FALSE, ord |-> 0, sec |-> 0]
    ELSE [ok |-> TRUE, ord |-> dt.ord + ((dt.sec + offset) \div 86400),
          sec |-> (dt.sec + offset) % 86400]

\* dt + timedelta(seconds=offset): OverflowError outside 0001..9999
AddSeconds(dt, offset) ==
    LET total == dt.sec + offset
        ord   == dt.ord + (total \div 86400)
    IN  IF ord < 1 \/ ord > MaxOrdinal
          THEN [ok |-> FALSE, ord |-> 0, sec |-> 0]
          ELSE [ok |-> TRUE, ord |-> ord, sec |-> total % 86400]


(***************************************************************************)
(* The configuration file (JSON).  A scalar is tagged with its JSON type;  *)
(* "absent" says the key is not in its object.                             *)
(***************************************************************************)
JInt(v) == [t |-> "int", v |-> v]

JStr == [t |-> "str", v |-> 0]

JAbsent == [t |-> "absent", v |-> 0]

\* the JSON literal true: json.load gives the bool True, which Python counts
\* as the int 1 (isinstance(True, int), timedelta(seconds=True))
JTrue == [t |-> "bool", v |-> 1]

\* one entry of config["channels"]: a dict with offset, enabled, description
ChannelEntry(offset, enabled) ==
    [t |-> "dict", offset |-> offset, enabled |-> enabled]

EnabledTrue == [t |-> "bool", v |-> TRUE]

EnabledFalse == [t |-> "bool", v |-> FALSE]

EnabledAbsent == [t |-> "absent", v |-> TRUE]

\* config.get('enabled', True)
entry_enabled(entry) == IF entry.enabled.t = "absent" THEN TRUE ELSE entry.enabled.v

\* config.get('offset', 0)
entry_offset(entry) == IF entry.offset.t = "absent" THEN 0 ELSE entry.offset.v

\* the mutation: the enabled flag is ignored
channel_offsets_of_all(config) ==
    [c \in DOMAIN config.channels |-> entry_offset(config.channels[c])]

\* ScheduleProcessor.process_schedules, "Extrair configurações de offset":
\* only the enabled channels get an entry of channel_offsets
channel_offsets_of(config) ==
    [c \in {k \in DOMAIN config.channels : entry_enabled(config.channels[k])}
        |-> entry_offset(config.channels[c])]

\* XmlTimeAdjuster.process_xml: channel_offsets.get(channel_id, default_offset)
offset_for(offsets, channel_id, default_offset) ==
    IF channel_id \in DOMAIN offsets THEN offsets[channel_id] ELSE default_offset

(***************************************************************************)
(* The XML engine.  A document is its channel elements (their id           *)
(* attributes, in document order), its programme elements and the          *)
(* provenance comment process_xml inserts.                                 *)
(***************************************************************************)
Programme(channel, start, stop, title) ==
    [channel |-> channel, start |-> start, stop |-> stop, title |-> title]

NoComment == [present |-> FALSE, at |-> 0, count |-> 0]

Document(channels, programmes) ==
    [channels |-> channels, programmes |-> programmes, comment |-> NoComment]

\* XmlTimeAdjuster.__init__
NewStats == [channels_processed |-> 0, programs_processed |-> 0, errors |-> <<>>]

OverflowMsg == "Erro ao ajustar programa: date value out of range"

\* the mutation: the stop attribute is shifted by the negated offset
adjust_program_times_negstop(program, offset_seconds) ==
    LET start_dt  == parse_datetime(program.start)
        stop_dt   == parse_datetime(program.stop)
        new_start == AddSeconds(start_dt, offset_seconds)
        new_stop  == AddSeconds(stop_dt, 0 - offset_seconds)
    IN  [program |-> [program EXCEPT
                        !.start = IF start_dt.ok /\ new_start.ok
                                    THEN format_datetime(new_start) ELSE @,
                        !.stop = IF stop_dt.ok /\ new_stop.ok
                                   THEN format_datetime(new_stop) ELSE @],
         processed |-> 1, errors |-> <<>>]

\* XmlTimeAdjuster.adjust_program_times: start, then stop, each only when
\* the attribute is non-empty and parses; an exception (the overflow of the
\* addition) leaves what was already set, records an error and skips the count
adjust_program_times(program, offset_seconds) ==
    LET start_dt     == parse_datetime(program.start)
        do_start     == program.start.kind # "empty" /\ start_dt.ok
        new_start    == AddSeconds(start_dt, offset_seconds)
        start_raised == do_start /\ ~new_start.ok
        p1           == IF do_start /\ new_start.ok
                          THEN [program EXCEPT !.start = format_datetime(new_start)]
                          ELSE program
        stop_dt      == parse_datetime(program.stop)
        do_stop      == ~start_raised /\ program.stop.kind # "empty" /\ stop_dt.ok
        new_stop     == AddSeconds(stop_dt, offset_seconds)
        stop_raised  == do_stop /\ ~new_stop.ok
        p2           == IF do_stop /\ new_stop.ok
                          THEN [p1 EXCEPT !.stop = format_datetime(new_stop)]
                          ELSE p1
        raised       == start_raised \/ stop_raised
    IN  [program |-> p2,
         processed |-> IF raised THEN 0 ELSE 1,
         errors |-> IF raised THEN <<OverflowMsg>> ELSE <<>>]

\* adjust_program_times, "self.programs_processed += 1" and
\* "self.errors.append(error_msg)": the tree and the statistics once the
\* programme at position i got the result r of adjust_program_times
record_adjusted(tree, i, r) ==
    [programmes |-> [tree.programmes EXCEPT ![i] = r.program],
     stats |-> [tree.stats EXCEPT !.programs_processed = @ + r.processed,
                                  !.errors = @ \o r.errors]]

\* process_xml, the inner loop: root.findall("programme[@channel='<id>']")
\* and adjust_program_times on each match, in document order; tree holds
\* the programme elements and the statistics
RECURSIVE adjust_matching(_, _, _, _)
adjust_matching(tree, channel_id, offset, i) ==
    IF i > Len(tree.programmes) THEN tree
    ELSE IF tree.programmes[i].channel = channel_id
      THEN adjust_matching(
               record_adjusted(tree, i,
                   adjust_program_times(tree.programmes[i], offset)),
               channel_id, offset, i + 1)
      ELSE adjust_matching(tree, channel_id, offset, i + 1)

\* process_xml, "self.channels_processed += 1"
count_channel(tree) ==
    [tree EXCEPT !.stats.channels_processed = @ + 1]

\* process_xml, one iteration of "for channel in root.findall('channel')"
process_channel(tree, channel_id, offsets, default_offset) ==
    count_channel(
        adjust_matching(tree, channel_id,
                        offset_for(offsets, channel_id, default_offset), 1))

RECURSIVE process_channels(_, _, _, _, _)
process_channels(channels, tree, offsets, default_offset, i) ==
    IF i > Len(channels) THEN tree
    ELSE process_channels(channels,
             process_channel(tree, channels[i], offsets, default_offset),
             offsets, default_offset, i + 1)

\* process_xml, after the loop: the comment with the time and the count
provenance(now_t, stats) ==
    [present |-> TRUE, at |-> now_t, count |-> stats.programs_processed]

\* process_xml, tree.write(output_path): the document written and the
\* statistics, from the channel elements and the processed tree
written_document(channels, tree, now_t) ==
    [doc |-> [channels |-> channels, programmes |-> tree.programmes,
              comment |-> provenance(now_t, tree.stats)],
     stats |-> tree.stats]

\* XmlTimeAdjuster.process_xml: the document written to output_path and the
\* statistics, for the document at input_path
process_xml(doc, stats, offsets, default_offset, now_t) ==
    written_document(doc.channels,
        process_channels(doc.channels,
                         [programmes |-> doc.programmes, stats |-> stats],
                         offsets, default_offset, 1),
        now_t)

(***************************************************************************)
(* The state.                                                              *)
(*   Durable (the filesystem): config, raw_file, hash_file, extracted,     *)
(*   gens, latest_xml, latest_gz, root_out.                                *)
(*   One invocation of run: pc, force, updated, output_name, ret, stats.   *)
(*   The environment: now (the clock as last read), faults, reader_saw.    *)
(*   History, read only by the properties: last_fetch, publish_fault,      *)
(*   delete_fault, pruned, removals.                                       *)
(*   SpecXml: xpc, xcfg, xsrc, xtree, xi, xstats, and xprev, the tree and  *)
(*   the statistics before the last iteration.                             *)
(*   SpecShift: shpc, the attribute text sh_t, the offsets sh_o1 and       *)
(*   sh_o2, and what the adjustments made of the text: sh_once (by sh_o1), *)
(*   sh_twice (that, by sh_o2) and sh_direct (by sh_o1 + sh_o2).           *)
(***************************************************************************)
VARIABLES config, raw_file, hash_file, extracted, gens, latest_xml, latest_gz,
          root_out, pc, force, updated, output_name, ret, stats, now, faults,
          reader_saw, last_fetch, publish_fault, delete_fault, pruned,
          removals,
          xpc, xcfg, xsrc, xtree, xprev, xi, xstats,
          shpc, sh_t, sh_o1, sh_o2, sh_once, sh_twice, sh_direct

durable == <<config, raw_file, hash_file, extracted, gens, latest_xml,
             latest_gz, root_out>>

runvars == <<pc, force, updated, output_name, ret, stats>>

history == <<last_fetch, publish_fault, delete_fault, pruned, removals>>

xvars == <<xpc, xcfg, xsrc, xtree, xprev, xi, xstats>>

svars == <<shpc, sh_t, sh_o1, sh_o2, sh_once, sh_twice, sh_direct>>

vars == <<durable, runvars, now, faults, reader_saw, history, xvars, svars>>

(***************************************************************************)
(* Files.                                                                  *)
(***************************************************************************)
EmptyDoc == Document(<<>>, <<>>)

\* the bytes of a gzip archive of doc
GzipOf(doc) == [gzip |-> TRUE, doc |-> doc]

\* bytes that are no gzip archive
Corrupt == [gzip |-> FALSE, doc |-> EmptyDoc]

\* SourceDownloader._calculate_hash: SHA-256 of the bytes, taken as
\* collision-free
sha256_of(blob) == [sha256 |-> blob]

NoRaw == [exists |-> FALSE, data |-> Corrupt]

NoHash == [exists |-> FALSE, hash |-> sha256_of(Corrupt)]

\* source_data.xml: absent, truncated to nothing, or a whole document
NoExtracted == [exists |-> FALSE, empty |-> TRUE, doc |-> EmptyDoc]

TruncatedExtracted == [exists |-> TRUE, empty |-> TRUE, doc |-> EmptyDoc]

ExtractedDoc(doc) == [exists |-> TRUE, empty |-> FALSE, doc |-> doc]

\* one generation name: schedule_adjusted_<ts>.xml and its .gz
NoGen == [xml_exists |-> FALSE, xml |-> EmptyDoc, mtime |-> 0,
          gz_exists |-> FALSE, gz |-> Corrupt]

\* the well-known output: the bytes being written and how many chunks of them
NoRoot == [exists |-> FALSE, data |-> Corrupt, written |-> 0]

\* the names a generation can get: the second the clock shows
GenNames == 1..MaxClock

(***************************************************************************)
(* Configuration: load_configuration, create_default_config,               *)
(* validate_config.                                                        *)
(***************************************************************************)
\* ScheduleProcessor.__init__(default_offset=30)
default_offset_arg == 30

\* processing.max_backup_files of create_default_config, and the default of
\* cleanup_old_files' .get('max_backup_files', 5)
default_max_backup == 5

NoConfig ==
    [exists |-> FALSE, default_offset |-> JAbsent, channels_t |-> "absent",
     channels |-> <<>>, compress_output |-> TRUE, cleanup_old_files |-> FALSE,
     max_backup_files |-> default_max_backup]

ConfigFile(default_offset, channels_t, channels, compress, cleanup, max_files) ==
    [exists |-> TRUE, default_offset |-> default_offset,
     channels_t |-> channels_t, channels |-> channels,
     compress_output |-> compress, cleanup_old_files |-> cleanup,
     max_backup_files |-> max_files]

\* ScheduleProcessor.create_default_config
create_default_config ==
    ConfigFile(JInt(default_offset_arg), "dict",
               [c \in {"example_channel"} |-> ChannelEntry(JInt(0), EnabledTrue)],
               TRUE, TRUE, default_max_backup)

\* the mutation: the per-channel rules are not checked
validate_config_shallow(cfg) ==
    /\ cfg.default_offset.t # "absent"
    /\ cfg.channels_t # "absent"

\* isinstance(value, int): bool is a subclass of int
isinstance_int(value) == value.t \in {"int", "bool"}

\* utils.validate_config
validate_config(cfg) ==
    /\ cfg.default_offset.t # "absent"
    /\ cfg.channels_t # "absent"
    /\ isinstance_int(cfg.default_offset)
    /\ cfg.channels_t = "dict"
    /\ \A c \in DOMAIN cfg.channels :
          /\ cfg.channels[c].t = "dict"
          /\ cfg.channels[c].offset.t # "absent"
          /\ isinstance_int(cfg.channels[c].offset)

\* load_configuration up to validation: the file as it is after the default
\* was created for a missing file and a missing default_offset was backfilled
\* and saved
loaded_config(cfg) ==
    LET c1 == IF cfg.exists THEN cfg ELSE create_default_config
    IN  IF c1.default_offset.t = "absent"
          THEN [c1 EXCEPT !.default_offset = JInt(default_offset_arg)]
          ELSE c1

\* config.get('default_offset', self.default_offset) of a validated config
config_default_offset(cfg) ==
    IF isinstance_int(cfg.default_offset) THEN cfg.default_offset.v
    ELSE default_offset_arg

(***************************************************************************)
(* The inputs of the pipeline: the configurations a data directory starts  *)
(* with and the bytes the source URL serves.                               *)
(***************************************************************************)
TestChannels == [c \in {"test.pt"} |-> ChannelEntry(JInt(30), EnabledTrue)]

\* cleanup disabled, or enabled with max_backup_files in 0..MaxBackup
Retentions ==
    {<<FALSE, default_max_backup>>} \cup {<<TRUE, k>> : k \in 0..MaxBackup}

\* compress_output enabled with every retention, and disabled
ValidConfigs ==
    {ConfigFile(JInt(default_offset_arg), "dict", TestChannels, TRUE, r[1], r[2]) :
        r \in Retentions}
    \cup {ConfigFile(JInt(default_offset_arg), "dict", TestChannels, FALSE,
                     TRUE, 1)}

PipelineConfigs ==
    ValidConfigs \cup
    {NoConfig,
     \* default_offset missing
     ConfigFile(JAbsent, "dict", TestChannels, TRUE, TRUE, 1),
     \* default_offset a string
     ConfigFile(JStr, "dict", TestChannels, TRUE, TRUE, 1),
     \* default_offset the JSON literal true
     ConfigFile(JTrue, "dict", TestChannels, TRUE, TRUE, 1),
     \* channels a list
     ConfigFile(JInt(default_offset_arg), "list", <<>>, TRUE, TRUE, 1),
     \* a channel entry whose offset is a string
     ConfigFile(JInt(default_offset_arg), "dict",
                [c \in {"test.pt"} |-> ChannelEntry(JStr, EnabledTrue)],
                TRUE, TRUE, 1)}

T1200 == Ts(2025, 1, 1, 12, 0, 0, "+0000")

T1300 == Ts(2025, 1, 1, 13, 0, 0, "+0000")

\* the document of tests/test_processor.py
DocA == Document(<<"test.pt">>,
                 <<Programme("test.pt", T1200, T1300, "Test Program")>>)

\* a document listing channel test.pt twice, with a programme of a channel
\* that has no channel element
DocB == Document(<<"test.pt", "test.pt">>,
                 <<Programme("test.pt", T1200, T1300, "Test Program"),
                   Programme("rtp1.pt", T1300, Ts(2025, 1, 1, 14, 0, 0, "+0000"),
                             "Telejornal")>>)

Blobs == {GzipOf(DocA), GzipOf(DocB), Corrupt}

(***************************************************************************)
(* SourceDownloader.download_and_extract, after the download succeeded:    *)
(* the raw copy, the stored hash and the extracted document it leaves and  *)
(* what it returns ("changed", "unchanged") or raises ("decompress_error"). *)
(***************************************************************************)
\* the mutation: the stored hash is ignored and every download is extracted
download_and_extract_always(blob, frc, hashf, extr) ==
    IF blob.gzip
      THEN [raw |-> [exists |-> TRUE, data |-> blob],
            hash |-> [exists |-> TRUE, hash |-> sha256_of(blob)],
            extracted |-> ExtractedDoc(blob.doc), result |-> "changed"]
      ELSE [raw |-> [exists |-> TRUE, data |-> blob], hash |-> hashf,
            extracted |-> TruncatedExtracted, result |-> "decompress_error"]

\* the mutation: equal hashes are reported as unchanged without a look at
\* the extracted copy
download_and_extract_trusting(blob, frc, hashf, extr) ==
    IF ~frc /\ hashf.exists /\ hashf.hash = sha256_of(blob)
      THEN [raw |-> [exists |-> TRUE, data |-> blob], hash |-> hashf,
            extracted |-> extr, result |-> "unchanged"]
      ELSE download_and_extract_always(blob, frc, hashf, extr)

\* the mutation: force is not looked at
download_and_extract_unforced(blob, frc, hashf, extr) ==
    IF hashf.exists /\ hashf.hash = sha256_of(blob) /\ extr.exists
      THEN [raw |-> [exists |-> TRUE, data |-> blob], hash |-> hashf,
            extracted |-> extr, result |-> "unchanged"]
      ELSE download_and_extract_always(blob, frc, hashf, extr)

download_and_extract(blob, frc, hashf, extr) ==
    LET raw          == [exists |-> TRUE, data |-> blob]
        current_hash == sha256_of(blob)
    IN  IF ~frc /\ hashf.exists /\ hashf.hash = current_hash /\ extr.exists
          THEN [raw |-> raw, hash |-> hashf, extracted |-> extr,
                result |-> "unchanged"]
        ELSE IF blob.gzip
          \* gzip.open(raw_path) read into open(extracted_path, 'wb')
          THEN [raw |-> raw,
                hash |-> [exists |-> TRUE, hash |-> current_hash],
                extracted |-> ExtractedDoc(blob.doc), result |-> "changed"]
          \* open(extracted_path, 'wb') has truncated the file when
          \* f_in.read() raises; _store_hash is not reached
          ELSE [raw |-> raw, hash |-> hashf,
                extracted |-> TruncatedExtracted, result |-> "decompress_error"]

\* the mutation: every run processes
run_processes_always(upd, frc) == TRUE

\* the mutation: the force flag is read negated
run_processes_unless_forced(upd, frc) == upd \/ ~frc

\* ScheduleProcessor.run: "if updated or force_download"
run_processes(upd, frc) == upd \/ frc

(***************************************************************************)
(* ScheduleProcessor.process_schedules: the generation named after the     *)
(* second now_t.  fault is the step that raises: "parse" (ET.parse or      *)
(* tree.write, nothing written), "gz" (create_compressed_output, after the *)
(* document was written) or "none".                                        *)
(***************************************************************************)
process_schedules_raises(extr, cfg, fault) ==
    \/ ~extr.exists
    \/ extr.empty
    \/ fault = "parse"
    \/ (fault = "gz" /\ cfg.compress_output)

\* process_schedules, the files of the generation named by the second
\* now_t: the document r.doc written by process_xml, and its .gz when
\* create_compressed_output ran
store_generation(g, now_t, r, with_gz) ==
    [gens |-> [g EXCEPT ![now_t] =
                 [xml_exists |-> TRUE, xml |-> r.doc, mtime |-> now_t,
                  gz_exists |-> with_gz \/ @.gz_exists,
                  gz |-> IF with_gz THEN GzipOf(r.doc) ELSE @.gz]],
     stats |-> r.stats]

process_schedules(g, extr, cfg, now_t, fault) ==
    IF ~extr.exists \/ extr.empty \/ fault = "parse"
      THEN [gens |-> g, stats |-> NewStats]
      ELSE store_generation(g, now_t,
               process_xml(extr.doc, NewStats, channel_offsets_of(cfg),
                           config_default_offset(cfg), now_t),
               cfg.compress_output /\ fault # "gz")

(***************************************************************************)
(* ScheduleProcessor.cleanup_old_files.  outcome gives, for each           *)
(* generation beyond the retention count, whether its removal works        *)
(* ("ok"), os.remove of the .xml raises ("xml_fail") or os.remove of the   *)
(* .gz raises after the .xml was removed ("gz_fail").                      *)
(***************************************************************************)
\* the files listed: schedule_adjusted_*.xml
listed(g) == {n \in DOMAIN g : g[n].xml_exists}

\* the mutation: oldest first
position_asc(g, n) == Cardinality({m \in listed(g) : g[m].mtime < g[n].mtime})

\* processed_files.sort(key=mtime, reverse=True): the position of n, from 0
position(g, n) == Cardinality({m \in listed(g) : g[m].mtime > g[n].mtime})

\* processed_files[max_files:]
beyond_retention(g, cfg) ==
    IF cfg.cleanup_old_files
      THEN {n \in listed(g) : position(g, n) >= cfg.max_backup_files}
      ELSE {}

remove_generation(e, how) ==
    IF how = "xml_fail" THEN e
    ELSE IF how = "gz_fail" /\ e.gz_exists
      THEN [e EXCEPT !.xml_exists = FALSE, !.xml = EmptyDoc, !.mtime = 0]
    ELSE NoGen

\* one of the os.remove calls for entry e raises
removal_raises(e, how) ==
    \/ how = "xml_fail"
    \/ (how = "gz_fail" /\ e.gz_exists)

\* the mutation: the loop ends at the first removal that raises
removal_attempts_until_failure(g, cfg, outcome) ==
    {n \in beyond_retention(g, cfg) :
        \A m \in beyond_retention(g, cfg) :
            position(g, m) < position(g, n) => ~removal_raises(g[m], outcome[m])}

\* the entries the loop "for file_path, _ in processed_files[max_files:]"
\* gets to: the try/except is inside the loop, so all of them
removal_attempts(g, cfg, outcome) == beyond_retention(g, cfg)

cleanup_old_files(g, cfg, outcome) ==
    [n \in DOMAIN g |->
        IF n \in removal_attempts(g, cfg, outcome)
          THEN remove_generation(g[n], outcome[n]) ELSE g[n]]

\* the entries whose removal raised (logged as a warning)
removals_failed(g, cfg, outcome) ==
    {n \in removal_attempts(g, cfg, outcome) : removal_raises(g[n], outcome[n])}

\* a removal raised
cleanup_raised(g, cfg, outcome) == removals_failed(g, cfg, outcome) # {}

\* what a cleanup did: the entries it tried to remove and the ones that
\* raised
NoRemovals == [attempted |-> {}, failed |-> {}]

(***************************************************************************)
(* The pipeline.  A data directory starts empty but for its config file.   *)
(***************************************************************************)
\* the data directory before the first run, but for the config file
FreshDirectory ==
    /\ raw_file = NoRaw
    /\ hash_file = NoHash
    /\ extracted = NoExtracted
    /\ gens = [n \in GenNames |-> NoGen]
    /\ latest_xml = 0
    /\ latest_gz = 0
    /\ root_out = NoRoot
    /\ pc = "idle"
    /\ force = FALSE
    /\ updated = FALSE
    /\ output_name = 0
    /\ ret = "none"
    /\ stats = NewStats
    /\ now = 1
    /\ faults = 0
    /\ reader_saw = "nothing"
    /\ last_fetch = "none"
    /\ publish_fault = FALSE
    /\ delete_fault = FALSE
    /\ pruned = FALSE
    /\ removals = NoRemovals

\* SpecXml's variables when the pipeline is what runs
XmlOff ==
    /\ xpc = "off"
    /\ xcfg = NoConfig
    /\ xsrc = EmptyDoc
    /\ xtree = EmptyDoc
    /\ xprev = [programmes |-> <<>>, stats |-> NewStats]
    /\ xi = 0
    /\ xstats = NewStats

\* the result of one adjustment of an attribute text: the text the
\* attribute holds afterwards and whether an error was recorded
ShiftResult(text, raised) == [text |-> text, raised |-> raised]

\* SpecShift's variables when another specification is what runs
ShiftOff ==
    /\ shpc = "off"
    /\ sh_t = EmptyText
    /\ sh_o1 = 0
    /\ sh_o2 = 0
    /\ sh_once = ShiftResult(EmptyText, FALSE)
    /\ sh_twice = ShiftResult(EmptyText, FALSE)
    /\ sh_direct = ShiftResult(EmptyText, FALSE)

Init ==
    /\ config \in PipelineConfigs
    /\ FreshDirectory
    /\ XmlOff
    /\ ShiftOff

\* the environment may still fail
MayFail == faults < MaxFaults

\* run.py main: a new process calls ScheduleProcessor(...).run(force)
StartRun ==
    /\ pc \in {"idle", "done", "failed"}
    /\ \E f \in BOOLEAN : force' = f
    /\ pc' = "load"
    /\ updated' = FALSE
    /\ output_name' = 0
    /\ ret' = "none"
    /\ stats' = NewStats
    /\ publish_fault' = FALSE
    /\ delete_fault' = FALSE
    /\ pruned' = FALSE
    /\ removals' = NoRemovals
    /\ UNCHANGED <<durable, now, faults, reader_saw, last_fetch, xvars, svars>>

\* run.py main: sys.exit(0) after run returned True ("Processamento
\* concluído com sucesso!") or False ("Nenhum processamento necessário"),
\* sys.exit(1) in the except clauses
exit_code(r) == IF r \in {"True", "False"} THEN 0 ELSE 1

\* run: load_configuration and initialize_components
LoadConfiguration ==
    /\ pc = "load"
    /\ config' = loaded_config(config)
    /\ IF validate_config(loaded_config(config))
         THEN pc' = "fetch" /\ ret' = ret
         ELSE pc' = "failed" /\ ret' = "ConfigError"
    /\ UNCHANGED <<raw_file, hash_file, extracted, gens, latest_xml, latest_gz,
                   root_out, force, updated, output_name, stats, now, faults,
                   reader_saw, history, xvars, svars>>

\* the mutation: what was received before the request failed is saved as
\* the raw copy
DownloadFails_saving ==
    /\ pc = "fetch"
    /\ MayFail
    /\ faults' = faults + 1
    /\ raw_file' = [exists |-> TRUE, data |-> Corrupt]
    /\ pc' = "failed"
    /\ ret' = "FetchError"
    /\ UNCHANGED <<config, hash_file, extracted, gens, latest_xml, latest_gz,
                   root_out, force, updated, output_name, stats, now,
                   reader_saw, history, xvars, svars>>

\* run: download_source, when requests.get raises
DownloadFails ==
    /\ pc = "fetch"
    /\ MayFail
    /\ faults' = faults + 1
    /\ pc' = "failed"
    /\ ret' = "FetchError"
    /\ UNCHANGED <<durable, force, updated, output_name, stats, now,
                   reader_saw, history, xvars, svars>>

\* the last call of download_and_extract had force=False and returned
fetch_returned == last_fetch \in {"returned", "returned_again", "healed"}

\* run: download_source, when the URL serves blob
DownloadSource ==
    /\ pc = "fetch"
    /\ \E blob \in Blobs :
         \E r \in {download_and_extract(blob, force, hash_file, extracted)} :
             /\ blob.gzip \/ MayFail
             /\ faults' = IF blob.gzip THEN faults ELSE faults + 1
             /\ raw_file' = r.raw
             /\ hash_file' = r.hash
             /\ extracted' = r.extracted
             /\ updated' = (r.result = "changed")
             /\ pc' = IF r.result = "decompress_error" THEN "failed" ELSE "fetched"
             /\ ret' = IF r.result = "decompress_error" THEN "DecompressError" ELSE ret
             /\ last_fetch' = IF /\ force
                                 /\ hash_file.exists
                                 /\ hash_file.hash = sha256_of(blob)
                                 /\ extracted.exists
                                THEN "forced_same"
                              ELSE IF force THEN "forced"
                              ELSE IF r.result = "decompress_error"
                                THEN "decompress_error"
                              ELSE IF /\ hash_file.exists
                                      /\ hash_file.hash = sha256_of(blob)
                                      /\ ~extracted.exists
                                THEN "healed"
                              ELSE IF fetch_returned THEN "returned_again"
                              ELSE "returned"
    /\ UNCHANGED <<config, gens, latest_xml, latest_gz, root_out, force,
                   output_name, stats, now, reader_saw, publish_fault,
                   delete_fault, pruned, removals, xvars, svars>>

\* run: the else branch, "Nenhum processamento necessário", return False
Skip ==
    /\ pc = "fetched"
    /\ ~run_processes(updated, force)
    /\ pc' = "done"
    /\ ret' = "False"
    /\ UNCHANGED <<durable, force, updated, output_name, stats, now, faults,
                   reader_saw, history, xvars, svars>>

\* run: the if branch up to process_schedules; the clock shows t
ProcessSchedules ==
    /\ pc = "fetched"
    /\ run_processes(updated, force)
    /\ \E t \in now..MaxClock, fault \in {"none", "parse", "gz"} :
         \E r \in {process_schedules(gens, extracted, config, t, fault)} :
             /\ fault = "none" \/ MayFail
             /\ fault = "gz" => config.compress_output
             /\ faults' = IF fault = "none" THEN faults ELSE faults + 1
             /\ now' = t
             /\ gens' = r.gens
             /\ stats' = r.stats
             /\ IF process_schedules_raises(extracted, config, fault)
                  THEN pc' = "failed" /\ ret' = "ProcessingError"
                       /\ output_name' = output_name
                  ELSE pc' = "copy" /\ ret' = ret /\ output_name' = t
    /\ UNCHANGED <<config, raw_file, hash_file, extracted, latest_xml,
                   latest_gz, root_out, force, updated, reader_saw, history,
                   xvars, svars>>

(***************************************************************************)
(* ScheduleProcessor.create_output_files.  shutil.copy2 opens the target   *)
(* for writing, which truncates it, and writes the source into it chunk by *)
(* chunk; every exception of the method is caught and logged as a warning. *)
(***************************************************************************)
\* "if os.path.exists(compressed_source)" and the open of shutil.copy2
CopyOpen ==
    /\ pc = "copy"
    /\ IF gens[output_name].gz_exists
         THEN \E ok \in BOOLEAN :
                /\ ok \/ MayFail
                /\ IF ok
                     THEN /\ root_out' = [exists |-> TRUE,
                                          data |-> gens[output_name].gz,
                                          written |-> 0]
                          /\ pc' = "copying"
                          /\ publish_fault' = publish_fault
                          /\ faults' = faults
                     ELSE /\ root_out' = root_out
                          /\ pc' = "report"
                          /\ publish_fault' = TRUE
                          /\ faults' = faults + 1
         ELSE /\ root_out' = root_out
              /\ pc' = "links"
              /\ publish_fault' = publish_fault
              /\ faults' = faults
    /\ UNCHANGED <<config, raw_file, hash_file, extracted, gens, latest_xml,
                   latest_gz, force, updated, output_name, ret, stats, now,
                   reader_saw, last_fetch, delete_fault, pruned, removals,
                   xvars, svars>>

\* shutil.copy2: one more chunk reaches the target, or the write raises
CopyChunk ==
    /\ pc = "copying"
    /\ \E ok \in BOOLEAN :
         /\ ok \/ MayFail
         /\ IF ok
              THEN /\ root_out' = [root_out EXCEPT !.written = @ + 1]
                   /\ pc' = IF root_out.written + 1 = FileChunks
                              THEN "links" ELSE "copying"
                   /\ publish_fault' = publish_fault
                   /\ faults' = faults
              ELSE /\ root_out' = root_out
                   /\ pc' = "report"
                   /\ publish_fault' = TRUE
                   /\ faults' = faults + 1
    /\ UNCHANGED <<config, raw_file, hash_file, extracted, gens, latest_xml,
                   latest_gz, force, updated, output_name, ret, stats, now,
                   reader_saw, last_fetch, delete_fault, pruned, removals,
                   xvars, svars>>

\* latest.xml and latest.xml.gz: remove, then os.symlink; fault names the
\* symlink call that raises
UpdateLatest ==
    /\ pc = "links"
    /\ \E fault \in {"none", "first", "second"} :
         /\ fault = "none" \/ MayFail
         /\ faults' = IF fault = "none" THEN faults ELSE faults + 1
         /\ latest_xml' = IF fault = "first" THEN 0 ELSE output_name
         /\ latest_gz' = IF fault = "first" THEN latest_gz
                         ELSE IF fault = "second" THEN 0 ELSE output_name
         /\ publish_fault' = (fault # "none")
    /\ pc' = "report"
    /\ UNCHANGED <<config, raw_file, hash_file, extracted, gens, root_out,
                   force, updated, output_name, ret, stats, now, reader_saw,
                   last_fetch, delete_fault, pruned, removals, xvars, svars>>

\* the mutation: the report is the last step of the run
GenerateReport_last ==
    /\ pc = "report"
    /\ pc' = "done"
    /\ ret' = "True"
    /\ UNCHANGED <<durable, force, updated, output_name, stats, now,
                   faults, reader_saw, history, xvars, svars>>

\* ScheduleProcessor.generate_report: its exceptions are caught and logged
GenerateReport ==
    /\ pc = "report"
    /\ pc' = "cleanup"
    /\ UNCHANGED <<durable, force, updated, output_name, ret, stats, now,
                   faults, reader_saw, history, xvars, svars>>

\* run: cleanup_old_files, then return True
CleanupOldFiles ==
    /\ pc = "cleanup"
    /\ \E outcome \in [GenNames -> {"ok", "xml_fail", "gz_fail"}] :
         /\ cleanup_raised(gens, config, outcome) => MayFail
         /\ \A n \in GenNames \ beyond_retention(gens, config) : outcome[n] = "ok"
         /\ faults' = IF cleanup_raised(gens, config, outcome)
                        THEN faults + 1 ELSE faults
         /\ gens' = cleanup_old_files(gens, config, outcome)
         /\ delete_fault' = cleanup_raised(gens, config, outcome)
         /\ removals' = [attempted |-> removal_attempts(gens, config, outcome),
                         failed |-> removals_failed(gens, config, outcome)]
    /\ pruned' = (beyond_retention(gens, config) # {})
    /\ pc' = "done"
    /\ ret' = "True"
    /\ UNCHANGED <<config, raw_file, hash_file, extracted, latest_xml,
                   latest_gz, root_out, force, updated, output_name, stats,
                   now, reader_saw, last_fetch, publish_fault, xvars, svars>>

Next ==
    \/ StartRun
    \/ LoadConfiguration
    \/ DownloadFails
    \/ DownloadSource
    \/ Skip
    \/ ProcessSchedules
    \/ CopyOpen
    \/ CopyChunk
    \/ UpdateLatest
    \/ GenerateReport
    \/ CleanupOldFiles

Spec == Init /\ [][Next]_vars

(***************************************************************************)
(* SpecReader: the pipeline beside a process that reads the well-known     *)
(* output file at any moment.                                              *)
(***************************************************************************)
\* another process opens and reads the well-known output file
ReaderRead ==
    /\ reader_saw' = IF ~root_out.exists THEN "absent"
                     ELSE IF root_out.written = FileChunks THEN "whole"
                     ELSE "partial"
    /\ UNCHANGED <<durable, runvars, now, faults, history, xvars, svars>>

NextReader == Next \/ ReaderRead

SpecReader == Init /\ [][NextReader]_vars

(***************************************************************************)
(* SpecHeal: the pipeline in a data directory whose extracted document     *)
(* (data/raw/source_data.xml) can disappear between two runs, the stored   *)
(* hash staying: download_and_extract's "if os.path.exists(extracted_path)" *)
(* is there for that case.                                                 *)
(***************************************************************************)
\* between two runs the extracted document is removed
ExtractedLost ==
    /\ pc \in {"idle", "done", "failed"}
    /\ extracted.exists
    /\ MayFail
    /\ faults' = faults + 1
    /\ extracted' = NoExtracted
    /\ UNCHANGED <<config, raw_file, hash_file, gens, latest_xml, latest_gz,
                   root_out, runvars, now, reader_saw, history, xvars, svars>>

NextHeal == Next \/ ExtractedLost

SpecHeal == Init /\ [][NextHeal]_vars

(***************************************************************************)
(* SpecPrune: the pipeline in a data directory whose runs start with the   *)
(* cleanup disabled; between two runs config.json is edited to enable it.  *)
(* load_configuration reads the file anew in every run, so a cleanup can   *)
(* meet more generations beyond the retention count than one run adds.     *)
(***************************************************************************)
PruneConfigs ==
    {ConfigFile(JInt(default_offset_arg), "dict", TestChannels, TRUE, FALSE,
                default_max_backup)}

InitPrune ==
    /\ config \in PruneConfigs
    /\ FreshDirectory
    /\ XmlOff
    /\ ShiftOff

\* between two runs processing.cleanup_old_files is set to true and
\* processing.max_backup_files to k
RetentionEnabled ==
    /\ pc \in {"idle", "done", "failed"}
    /\ ~config.cleanup_old_files
    /\ \E k \in 0..MaxBackup :
         config' = [config EXCEPT !.cleanup_old_files = TRUE,
                                  !.max_backup_files = k]
    /\ UNCHANGED <<raw_file, hash_file, extracted, gens, latest_xml, latest_gz,
                   root_out, runvars, now, faults, reader_saw, history, xvars,
                   svars>>

NextPrune == Next \/ RetentionEnabled

SpecPrune == InitPrune /\ [][NextPrune]_vars

(***************************************************************************)
(* SpecXml: XmlTimeAdjuster.process_xml, one channel element at a time,    *)
(* over the documents and channel configurations below.                    *)
(***************************************************************************)
ChannelIds == {"test.pt", "rtp1.pt"}

T2359 == Ts(2024, 12, 31, 23, 59, 45, "+0100")

T0030 == Ts(2025, 1, 1, 0, 30, 0, "+0100")

\* no zone token; thirty seconds back is the leap day
TMar1 == Ts(2024, 3, 1, 0, 0, 10, "")

TMar1b == Ts(2024, 3, 1, 1, 0, 0, "")

\* the last hour datetime can hold
TLast23 == Ts(9999, 12, 31, 23, 0, 0, "+0000")

TLast == Ts(9999, 12, 31, 23, 59, 50, "+0000")

\* fourteen digits that name no day
TFeb30 == Ts(2025, 2, 30, 12, 0, 0, "+0000")

XmlProgrammes ==
    {Programme("test.pt", T1200, T1300, "Test Program"),
     Programme("rtp1.pt", T1200, T1300, "Telejornal"),
     Programme("test.pt", T2359, T0030, "Passagem de Ano"),
     Programme("rtp1.pt", TMar1, TMar1b, "Madrugada"),
     Programme("test.pt", TLast23, TLast, "Fim"),
     Programme("test.pt", JunkText, T1300, "Sem inicio"),
     Programme("rtp1.pt", T1200, TFeb30, "Fim invalido"),
     Programme("rtp1.pt", EmptyText, T1300, "Sem atributo")}

\* sequences of at most n elements of S
RECURSIVE SeqsUpTo(_, _)
SeqsUpTo(S, n) ==
    IF n = 0 THEN {<<>>}
    ELSE LET shorter == SeqsUpTo(S, n - 1)
         IN  shorter \cup {Append(q, x) : q \in shorter, x \in S}

XmlDocuments ==
    {Document(chs, progs) : chs \in SeqsUpTo(ChannelIds, MaxChans),
                            progs \in SeqsUpTo(XmlProgrammes, MaxProgs)}

\* channel_offsets={"test.pt": 30}, default_offset=0 of test_xml_processing
ScenarioConfig ==
    ConfigFile(JInt(0), "dict",
               [c \in {"test.pt"} |-> ChannelEntry(JInt(30), EnabledAbsent)],
               TRUE, FALSE, default_max_backup)

XmlConfigs ==
    {ScenarioConfig,
     ConfigFile(JInt(0 - 30), "dict",
                [c \in ChannelIds |->
                    IF c = "test.pt" THEN ChannelEntry(JInt(30), EnabledFalse)
                    ELSE ChannelEntry(JInt(3600), EnabledTrue)],
                TRUE, FALSE, default_max_backup),
     ConfigFile(JInt(30), "dict",
                [c \in {"rtp1.pt"} |-> ChannelEntry(JInt(0 - 30), EnabledFalse)],
                TRUE, FALSE, default_max_backup),
     ConfigFile(JInt(0), "dict",
                [c \in {"example_channel"} |-> ChannelEntry(JInt(0), EnabledTrue)],
                TRUE, FALSE, default_max_backup)}

InitXml ==
    /\ config = NoConfig
    /\ FreshDirectory
    /\ xpc = "loop"
    /\ xcfg \in XmlConfigs
    /\ xsrc \in XmlDocuments
    /\ xtree = xsrc
    /\ xprev = [programmes |-> xsrc.programmes, stats |-> NewStats]
    /\ xi = 1
    /\ xstats = NewStats
    /\ ShiftOff

\* process_xml: one iteration of "for channel in root.findall('channel')"
XmlChannel ==
    /\ xpc = "loop"
    /\ xi <= Len(xtree.channels)
    /\ \E r \in {process_channel(
                      [programmes |-> xtree.programmes, stats |-> xstats],
                      xtree.channels[xi], channel_offsets_of(xcfg),
                      config_default_offset(xcfg))} :
          /\ xtree' = [xtree EXCEPT !.programmes = r.programmes]
          /\ xstats' = r.stats
    /\ xprev' = [programmes |-> xtree.programmes, stats |-> xstats]
    /\ xi' = xi + 1
    /\ UNCHANGED <<xpc, xcfg, xsrc, durable, runvars, now, faults, reader_saw,
                   history, svars>>

\* process_xml: after the loop, the comment and tree.write
XmlWrite ==
    /\ xpc = "loop"
    /\ xi > Len(xtree.channels)
    /\ xtree' = [xtree EXCEPT !.comment = provenance(now, xstats)]
    /\ xpc' = "written"
    /\ UNCHANGED <<xcfg, xsrc, xprev, xi, xstats, durable, runvars, now,
                   faults, reader_saw, history, svars>>

NextXml == XmlChannel \/ XmlWrite

SpecXml == InitXml /\ [][NextXml]_vars

(***************************************************************************)
(* SpecShift: the adjustment of one attribute text by adjust_program_times *)
(* (parse_datetime, the addition of the offset, format_datetime): by       *)
(* sh_o1, then the rewritten attribute by sh_o2, and the text by           *)
(* sh_o1 + sh_o2 at once.                                                  *)
(***************************************************************************)
\* valid fourteen-digit timestamps, most without zone token: noon, the
\* last seconds of a year, the first of March and the end of the leap day
\* of 2024, and the last seconds datetime can hold
ShiftTexts ==
    {Ts(2025, 1, 1, 12, 0, 0, ""),
     Ts(2024, 12, 31, 23, 59, 45, ""),
     TMar1,
     Ts(2024, 2, 29, 23, 59, 50, ""),
     T1200,
     T2359,
     TLast,
     Ts(9999, 12, 31, 23, 59, 50, "")}

\* multiples of thirty seconds, an hour, and a day back
ShiftOffsets ==
    {k * 30 : k \in (0 - MaxShift)..MaxShift} \cup {3600, 0 - 86400}

\* the zone tokens an attribute text can carry after its first space; ""
\* is the text without one
ZoneTokens == {"", "+0000", "+0100", "-0330"}

\* adjust_program_times on a programme element that holds text as its start
\* attribute: the attribute afterwards, and whether self.errors grew
adjust_text(text, offset_seconds) ==
    ShiftResult(
        adjust_program_times(Programme("test.pt", text, EmptyText, ""),
                             offset_seconds).program.start,
        adjust_program_times(Programme("test.pt", text, EmptyText, ""),
                             offset_seconds).errors # <<>>)

InitShift ==
    /\ config = NoConfig
    /\ FreshDirectory
    /\ XmlOff
    /\ shpc = "start"
    /\ sh_t \in ShiftTexts
    /\ sh_o1 \in ShiftOffsets
    /\ sh_o2 \in ShiftOffsets
    /\ sh_once = ShiftResult(EmptyText, FALSE)
    /\ sh_twice = ShiftResult(EmptyText, FALSE)
    /\ sh_direct = ShiftResult(EmptyText, FALSE)

\* the text adjusted by sh_o1
ShiftOnce ==
    /\ shpc = "start"
    /\ sh_once' = adjust_text(sh_t, sh_o1)
    /\ shpc' = "once"
    /\ UNCHANGED <<sh_t, sh_o1, sh_o2, sh_twice, sh_direct, durable, runvars,
                   now, faults, reader_saw, history, xvars>>

\* the attribute as rewritten, parsed back and adjusted by sh_o2
ShiftAgain ==
    /\ shpc = "once"
    /\ sh_twice' = adjust_text(sh_once.text, sh_o2)
    /\ shpc' = "twice"
    /\ UNCHANGED <<sh_t, sh_o1, sh_o2, sh_once, sh_direct, durable, runvars,
                   now, faults, reader_saw, history, xvars>>

\* the text adjusted by sh_o1 + sh_o2
ShiftDirect ==
    /\ shpc = "twice"
    /\ sh_direct' = adjust_text(sh_t, sh_o1 + sh_o2)
    /\ shpc' = "done"
    /\ UNCHANGED <<sh_t, sh_o1, sh_o2, sh_once, sh_twice, durable, runvars,
                   now, faults, reader_saw, history, xvars>>

NextShift == ShiftOnce \/ ShiftAgain \/ ShiftDirect

SpecShift == InitShift /\ [][NextShift]_vars

(***************************************************************************)
(* The properties.                                                         *)
(***************************************************************************)
\* the steps of run that leave the Fetched position
LeavesFetched == pc = "fetched" /\ pc' # "fetched"

\* the step is the Skipped path: run returns False and no file is touched
SkippedStep == pc' = "done" /\ ret' = "False" /\ UNCHANGED durable

\* the step is the Adjusted path: process_schedules ran, and either went on
\* to the publication or raised
AdjustedStep ==
    \/ pc' = "copy" /\ gens'[output_name'].xml_exists
    \/ pc' = "failed" /\ ret' = "ProcessingError"

\* C1: in run, after the fetch step the run takes the Skipped path (nothing
\* adjusted, nothing published, nothing cleaned up, False returned) if and
\* only if the fetch reported changed=false and force=false; in every
\* other case it takes the Adjusted path.
C1_SkipIffUnchangedAndNotForced ==
    [][LeavesFetched =>
          /\ SkippedStep <=> (~updated /\ ~force)
          /\ ~SkippedStep => AdjustedStep]_vars

\* a run that was skipped, and the output an earlier run has published
C1_Witness ==
    /\ pc = "done" /\ ret = "False"
    /\ ~updated /\ ~force
    /\ root_out.exists

\* a step of download_and_extract with force=False that got bytes from the
\* URL: it leaves the bytes in the raw copy
NonForcedFetchStep ==
    /\ pc = "fetch" /\ pc' # "fetch"
    /\ ret' # "FetchError"
    /\ ~force

\* the fetch of this step reports changed=false
ReportsUnchanged == pc' = "fetched" /\ ~updated'

\* the fetch of this step reports changed=true
ReportsChanged == pc' = "fetched" /\ updated'

\* the bytes of this step's download are those of the download before
SameBytes == raw_file.exists /\ raw_file'.data = raw_file.data

fetch_not_forced ==
    last_fetch \in {"returned", "returned_again", "healed", "decompress_error"}

C3_UnchangedMeansIntactDocument ==
    (pc = "fetched" /\ ~updated) =>
        /\ hash_file.exists
        /\ \A blob \in Blobs :
              hash_file.hash = sha256_of(blob) =>
                  blob.gzip /\ extracted = ExtractedDoc(blob.doc)

\* the programmes of a document, each shifted once by the offset of its
\* own channel
ShiftedOnce(programmes, cfg) ==
    [i \in DOMAIN programmes |->
        adjust_program_times(programmes[i],
            offset_for(channel_offsets_of(cfg), programmes[i].channel,
                       config_default_offset(cfg))).program]

\* C4: every generation the pipeline publishes carries the timestamps of
\* the fetched source document shifted by exactly one application of the
\* offset, however many runs, forced or not, were executed against that
\* source.
C4_OneOffsetApplicationPerGeneration ==
    pc = "copy" =>
        gens[output_name].xml.programmes =
            ShiftedOnce(extracted.doc.programmes, config)

Min(a, b) == IF a < b THEN a ELSE b

\* the step of run that is cleanup_old_files
CleanupStep == pc = "cleanup" /\ pc' = "done"

PublishedArtifact ==
    GzipOf(process_xml(extracted.doc, NewStats, channel_offsets_of(config),
                       config_default_offset(config), now).doc)

\* C6: at every point at most one generation is referenced as latest, and
\* whenever run returns True the well-known output file is a copy of the
\* compressed artifact of the generation published by that run, for every
\* configuration validation accepts.
C6_OutputReflectsPublishedGeneration ==
    /\ (latest_xml # 0 /\ latest_gz # 0) => latest_xml = latest_gz
    /\ (pc = "done" /\ ret = "True") =>
          root_out = [exists |-> TRUE, data |-> PublishedArtifact,
                      written |-> FileChunks]

\* C7: a failure in the fetch, decompress, config or publish step (a failed
\* copy to the well-known output or a failed update of the latest
\* references included) aborts the run; run never returns True after one.
C7_FailureNeverReturnsSuccess ==
    (pc = "done" /\ ret = "True") => ~publish_fault

\* C8: a reader of the well-known output file sees the whole previous
\* artifact or the whole new one, never a partially written file.
C8_ReaderNeverSeesPartialFile ==
    reader_saw # "partial"

\* the channel element the last iteration of process_xml's loop was for
LastChannel == xtree.channels[xi - 1]

\* the attribute text parses
Parses(t) == t.kind = "ts" /\ parse_datetime(t).ok

\* the seconds from the instant text a names to the instant text b names,
\* for instants at most a few days apart
SecondsBetween(a, b) ==
    (parse_datetime(b).ord - parse_datetime(a).ord) * 86400
        + (parse_datetime(b).sec - parse_datetime(a).sec)

\* text new names the instant of text old moved by o seconds
ShiftedBy(old, new, o) == Parses(new) /\ SecondsBetween(old, new) = o

\* the day the instant of text t moved by o seconds falls on
DayShifted(t, o) ==
    parse_datetime(t).ord + ((parse_datetime(t).sec + o) \div 86400)

\* the instant of t and the instant o seconds from it have four-digit years
FourDigitYears(t, o) ==
    /\ t.y >= 1000
    /\ DayShifted(t, o) >= ToOrdinal(1000, 1, 1)
    /\ DayShifted(t, o) <= ToOrdinal(9999, 12, 31)

\* the offset process_xml resolved for the channel of the last iteration
ResolvedOffset ==
    offset_for(channel_offsets_of(xcfg), LastChannel,
               config_default_offset(xcfg))

\* programme i was matched by the last iteration and both of its fields parse
BothParse(i) ==
    /\ xprev.programmes[i].channel = LastChannel
    /\ Parses(xprev.programmes[i].start)
    /\ Parses(xprev.programmes[i].stop)

\* both fields of programme i stay within four-digit years when moved by o
StaysInRange(i, o) ==
    /\ FourDigitYears(xprev.programmes[i].start, o)
    /\ FourDigitYears(xprev.programmes[i].stop, o)

\* the last iteration moved both fields of programme i by o seconds and
\* changed nothing else of it
MovedBy(i, o) ==
    /\ ShiftedBy(xprev.programmes[i].start, xtree.programmes[i].start, o)
    /\ ShiftedBy(xprev.programmes[i].stop, xtree.programmes[i].stop, o)
    /\ xtree.programmes[i].channel = xprev.programmes[i].channel
    /\ xtree.programmes[i].title = xprev.programmes[i].title

\* the document and the offsets of test_xml_processing were processed
ScenarioDone == xpc = "written" /\ xsrc = DocA /\ xcfg = ScenarioConfig

\* what test_xml_processing expects, and the shifted fields
ScenarioResult ==
    /\ xstats = [channels_processed |-> 1, programs_processed |-> 1,
                 errors |-> <<>>]
    /\ xtree.programmes[1] =
           Programme("test.pt", Ts(2025, 1, 1, 12, 0, 30, "+0000"),
                     Ts(2025, 1, 1, 13, 0, 30, "+0000"), "Test Program")

\* C9 (as amended): for every program whose start and stop both parse and
\* stay within the years 1000..9999 when moved by the resolved offset o
\* (positive, zero or negative), adjustment produces start' = start + o and
\* stop' = stop + o and changes nothing else of the program; for channel
\* test.pt with offset 30 and default 0 the result has
\* programs_processed=1, channels_processed=1 and no errors.
C9_StartAndStopShiftedByOffset ==
    /\ xi > 1 =>
          \A i \in DOMAIN xprev.programmes :
              (BothParse(i) /\ StaysInRange(i, ResolvedOffset))
                  => MovedBy(i, ResolvedOffset)
    /\ ScenarioDone => ScenarioResult

\* an iteration moved a program back in time, by a negative offset
C9_Witness ==
    /\ xi > 1
    /\ ResolvedOffset < 0
    /\ \E i \in DOMAIN xprev.programmes :
          /\ BothParse(i) /\ StaysInRange(i, ResolvedOffset)
          /\ xtree.programmes[i] # xprev.programmes[i]

\* C9 as stated: for every program whose start and stop both parse,
\* adjustment with resolved offset o produces start' = start + o and
\* stop' = stop + o and changes nothing else of the program.
C9_AsStated ==
    xi > 1 =>
        \A i \in DOMAIN xprev.programmes :
            BothParse(i) => MovedBy(i, ResolvedOffset)

\* the offset of a channel as the configuration gives it: the configured
\* offset of a listed and enabled channel, the default_offset otherwise
EffectiveOffset(cfg, ch) ==
    IF ch \in DOMAIN cfg.channels /\ entry_enabled(cfg.channels[ch])
      THEN entry_offset(cfg.channels[ch])
      ELSE config_default_offset(cfg)

\* the programs the last iteration matched whose fields parse and stay in
\* range
Covered(o) ==
    {i \in DOMAIN xprev.programmes : BothParse(i) /\ StaysInRange(i, o)}

Matched(i) == xprev.programmes[i].channel = LastChannel

\* the attribute is present and its text does not parse
Malformed(t) == t.kind # "empty" /\ ~Parses(t)

\* the programs the last iteration matched whose start value is malformed
MalformedStarts ==
    {i \in DOMAIN xprev.programmes :
        Matched(i) /\ Malformed(xprev.programmes[i].start)}

\* C11: a program with a malformed start value is not counted in
\* programs_processed and an entry for it appears in errors, while every
\* other program of the document is still adjusted by its resolved offset.
C11_MalformedStartExcludedAndReported ==
    xi > 1 =>
        /\ xstats.programs_processed - xprev.stats.programs_processed
               <= Cardinality({i \in DOMAIN xprev.programmes : Matched(i)})
                      - Cardinality(MalformedStarts)
        /\ Len(xstats.errors) - Len(xprev.stats.errors)
               >= Cardinality(MalformedStarts)
        /\ \A i \in Covered(ResolvedOffset) : MovedBy(i, ResolvedOffset)

\* C12: a program one of whose start/stop fields fails to parse is left
\* entirely unmodified by adjustment: neither its start nor its stop
\* attribute changes, also when the other field is well-formed.
C12_UnparseableProgramUntouched ==
    xi > 1 =>
        \A i \in DOMAIN xprev.programmes :
            (/\ Matched(i)
             /\ \/ Malformed(xprev.programmes[i].start)
                \/ Malformed(xprev.programmes[i].stop))
                => xtree.programmes[i] = xprev.programmes[i]

\* C13: a run started with a config file that lacks default_offset fails
\* with a configuration error before any fetch occurs: no download is
\* attempted and no durable state (config file, hash, raw copy,
\* generations) is changed.
C13_MissingDefaultOffsetFailsBeforeFetch ==
    [][(pc = "load" /\ config.exists /\ config.default_offset.t = "absent") =>
          (pc' = "failed" /\ ret' = "ConfigError" /\ UNCHANGED durable)]_vars

\* the rules of validation as the specification states them: both required
\* keys present, default_offset an integer, channels a mapping, every
\* channel entry with an integer offset
AllRulesHold(cfg) ==
    /\ cfg.default_offset.t = "int"
    /\ cfg.channels_t = "dict"
    /\ \A c \in DOMAIN cfg.channels :
          cfg.channels[c].t = "dict" /\ cfg.channels[c].offset.t = "int"

\* C14: validation rejects the whole config when any single rule is
\* violated and accepts it only when all rules hold; a rejected config
\* stops the run before the fetch step.
C14_ValidationRejectsAnyViolation ==
    /\ pc \notin {"idle", "load", "failed"} => AllRulesHold(config)
    /\ (pc = "failed" /\ ret = "ConfigError") =>
          (~AllRulesHold(config) /\ raw_file = NoRaw)

\* a step of download_and_extract with force=False whose downloaded bytes
\* hash to the stored hash
HashMatchFetchStep ==
    /\ NonForcedFetchStep
    /\ hash_file.exists
    /\ hash_file.hash = sha256_of(raw_file'.data)

\* C15: when the downloaded bytes hash to the stored hash and force is
\* false, the fetch reports changed=false and returns the existing
\* decompressed document exactly when that decompressed copy exists; when
\* the copy is missing it decompresses the raw bytes again, so that after
\* the fetch returns the decompressed document exists.
C15_UnchangedIffCopyExists ==
    [][HashMatchFetchStep =>
          /\ extracted.exists => (ReportsUnchanged /\ extracted' = extracted)
          /\ ~extracted.exists =>
                /\ ReportsChanged
                /\ extracted' = ExtractedDoc(raw_file'.data.doc)
                /\ hash_file' = hash_file
          /\ extracted'.exists]_vars

\* a non-forced fetch found the stored hash equal and the extracted copy
\* missing, and has decompressed the raw bytes again
C15_Witness ==
    /\ last_fetch = "healed"
    /\ pc = "fetched" /\ updated /\ ~force
    /\ extracted = ExtractedDoc(raw_file.data.doc)
    /\ hash_file.hash = sha256_of(raw_file.data)

\* the process of the run has ended
RunEnded == pc \in {"done", "failed"}

\* C16: the caller can distinguish the three outcomes of a run: a skipped
\* run returns False, a run with output returns True, and both lead to
\* exit code 0; any error (network, decode, validation, I/O) leads to exit
\* code 1 and never to exit code 0.
C16_ExitCodeTellsOutcome ==
    /\ pc = "done" => (ret \in {"True", "False"} /\ exit_code(ret) = 0)
    /\ (pc = "done" /\ ret = "False") => (~updated /\ ~force)
    /\ pc = "failed" =>
          /\ ret \in {"ConfigError", "FetchError", "DecompressError",
                       "ProcessingError"}
          /\ exit_code(ret) = 1
    /\ (RunEnded /\ publish_fault) => exit_code(ret) = 1

\* the instant of text t moved by o1, and moved by o1 + o2, has a
\* four-digit year, as t has
ShiftsInRange(t, o1, o2) ==
    FourDigitYears(t, o1) /\ FourDigitYears(t, o1 + o2)

\* C17 (as amended): shifting is additive wherever no shift leaves the
\* years 1000..9999: for offsets o1, o2 and a valid timestamp t such that
\* t + o1 and t + o1 + o2 lie in those years, shifting t by o1 + o2 gives
\* the same formatted result as shifting t by o1, parsing the formatted
\* result back and shifting it by o2, and that result names t + o1 + o2.
C17_ShiftIsAdditiveInRange ==
    (shpc = "done" /\ ShiftsInRange(sh_t, sh_o1, sh_o2)) =>
        /\ sh_twice.text = sh_direct.text
        /\ ~sh_once.raised /\ ~sh_twice.raised /\ ~sh_direct.raised
        /\ ShiftedBy(sh_t, sh_direct.text, sh_o1 + sh_o2)

\* a shift forward across midnight and a shift back, composed
C17_Witness ==
    /\ shpc = "done"
    /\ sh_o1 > 0 /\ sh_o2 < 0 /\ sh_o1 + sh_o2 # 0
    /\ ShiftsInRange(sh_t, sh_o1, sh_o2)
    /\ parse_datetime(sh_once.text).ord # parse_datetime(sh_t).ord
    /\ sh_twice.text = sh_direct.text
    /\ sh_direct.text # sh_once.text

\* C17 as stated: for all integer offsets o1, o2 and every valid timestamp
\* t, shifting t by o1 + o2 gives the same formatted result as shifting t
\* by o1, parsing the formatted result back, and shifting it by o2.
C17_AsStated ==
    shpc = "done" => sh_twice.text = sh_direct.text

\* C18 (as amended): with offset 0, format(parse(s)) is s followed by the
\* zone token " +0000" for every valid YYYYMMDDHHMMSS input s with a year
\* in 1000..9999: the fourteen digits are reproduced, and the token is
\* always written, in place of any token s carries.
C18_RoundTripAppendsZone ==
    (shpc # "start" /\ sh_o1 = 0 /\ FourDigitYears(sh_t, 0)) =>
        /\ sh_once.text = [sh_t EXCEPT !.zone = "+0000"]
        /\ ~sh_once.raised

\* a timestamp without zone token went through parse and format unshifted
C18_Witness ==
    /\ shpc = "once" /\ sh_o1 = 0
    /\ sh_t.zone = ""
    /\ sh_once.text = [sh_t EXCEPT !.zone = "+0000"]

\* C18 as stated: with offset 0, format(parse(s)) equals s for every valid
\* YYYYMMDDHHMMSS input s (a 14-digit timestamp without zone token).
C18_AsStated ==
    (shpc # "start" /\ sh_o1 = 0 /\ sh_t.zone = "") => sh_once.text = sh_t

\* a step of download_and_extract with force=True that got bytes from the
\* URL
ForcedFetchStep ==
    /\ pc = "fetch" /\ pc' # "fetch"
    /\ ret' # "FetchError"
    /\ force

\* the step has decompressed the downloaded bytes over the extracted copy,
\* stored their hash and reported changed=true
ExtractedAndStored ==
    /\ ReportsChanged
    /\ extracted' = ExtractedDoc(raw_file'.data.doc)
    /\ hash_file' = [exists |-> TRUE, hash |-> sha256_of(raw_file'.data)]

\* C19 (as amended): a forced fetch whose downloaded bytes are a gzip
\* archive decompresses them over any prior decompressed copy, persists
\* their hash and reports changed=true, also when the bytes are identical
\* to the previous download; when the bytes are no gzip archive it raises
\* the decompression error and persists no hash.  A forced run whose fetch
\* returned never takes the skipped path: it goes through adjust, and on to
\* publish unless adjust raises.
C19_ForcedFetchExtractsAndProcesses ==
    [][/\ (ForcedFetchStep /\ raw_file'.data.gzip) => ExtractedAndStored
       /\ (ForcedFetchStep /\ ~raw_file'.data.gzip) =>
             /\ pc' = "failed" /\ ret' = "DecompressError"
             /\ hash_file' = hash_file
       /\ (LeavesFetched /\ force) => (~SkippedStep /\ AdjustedStep)]_vars

\* a forced run has published after a fetch that a non-forced run would
\* have reported as unchanged
C19_Witness ==
    /\ last_fetch = "forced_same"
    /\ force /\ updated
    /\ pc = "done" /\ ret = "True"
    /\ latest_xml = output_name

\* C19 as stated: a forced fetch always decompresses the downloaded bytes
\* over any prior decompressed copy, persists the hash of the downloaded
\* bytes and reports changed=true.
C19_AsStated ==
    [][ForcedFetchStep => ExtractedAndStored]_vars

\* both fields of programme i of the source document parse, and stay
\* within four-digit years when moved by o
SourceInRange(i, o) ==
    /\ Parses(xsrc.programmes[i].start)
    /\ Parses(xsrc.programmes[i].stop)
    /\ FourDigitYears(xsrc.programmes[i].start, o)
    /\ FourDigitYears(xsrc.programmes[i].stop, o)

\* C20: adjust shifts every program of the document whose timestamps parse
\* by its channel's resolved offset exactly once per run, for every
\* document shape: also when the same channel id appears in more than one
\* channel element, and when a program's channel id has no channel element
\* in the document.
C20_EveryProgramShiftedExactlyOnce ==
    xpc = "written" =>
        \A i \in DOMAIN xsrc.programmes :
            SourceInRange(i, EffectiveOffset(xcfg, xsrc.programmes[i].channel))
                => /\ ShiftedBy(xsrc.programmes[i].start,
                                xtree.programmes[i].start,
                                EffectiveOffset(xcfg, xsrc.programmes[i].channel))
                   /\ ShiftedBy(xsrc.programmes[i].stop,
                                xtree.programmes[i].stop,
                                EffectiveOffset(xcfg, xsrc.programmes[i].channel))

\* the distinct channel identifiers process_xml's loop went over
DistinctChannels == {xsrc.channels[a] : a \in DOMAIN xsrc.channels}

\* the programs of the source document whose channel has a channel element
ReachedPrograms ==
    {i \in DOMAIN xsrc.programmes :
        xsrc.programmes[i].channel \in DistinctChannels}

\* the reached programs whose timestamps both parse and stay within
\* four-digit years when moved by their channel's offset: the ones that
\* are adjusted without error
AdjustablePrograms ==
    {i \in ReachedPrograms :
        SourceInRange(i, EffectiveOffset(xcfg, xsrc.programmes[i].channel))}

\* C21: after adjust, channels_processed equals the number of distinct
\* channel identifiers iterated in the document and programs_processed
\* equals the number of programs whose timestamps were successfully
\* adjusted (every program adjusted without error is counted, and no
\* program that was not reached is); no channel and no program is counted
\* more than once.
C21_CountsAreOfDistinctChannelsAndPrograms ==
    xpc = "written" =>
        /\ xstats.channels_processed = Cardinality(DistinctChannels)
        /\ xstats.programs_processed >= Cardinality(AdjustablePrograms)
        /\ xstats.programs_processed <= Cardinality(ReachedPrograms)

\* the files of the data directory a fetch, adjust, publish or cleanup
\* step can write
fetched_and_published ==
    <<hash_file, raw_file, extracted, gens, latest_xml, latest_gz, root_out>>

\* the steps of a run before its fetch: run.py main and load_configuration
BeforeFetchStep == pc \in {"idle", "done", "failed", "load"}

\* the fetch of this step failed at the network/HTTP level
FetchErrorStep == pc = "fetch" /\ ret' = "FetchError"

\* C22: a failure of the fetch at the network/HTTP level propagates to the
\* caller without retry and leaves all durable state unchanged: the stored
\* hash, the raw copy, the decompressed document, the generations, the
\* latest references and the well-known output are as before the run.
C22_FetchErrorLeavesStateUnchanged ==
    [][/\ BeforeFetchStep => UNCHANGED fetched_and_published
       /\ FetchErrorStep =>
             /\ pc' = "failed"
             /\ exit_code(ret') = 1
             /\ UNCHANGED fetched_and_published]_vars

\* a run failed in its request, in a data directory an earlier run has
\* published to
C22_Witness ==
    /\ pc = "failed" /\ ret = "FetchError"
    /\ hash_file.exists /\ raw_file.exists /\ extracted.exists
    /\ root_out.exists /\ latest_xml # 0

\* what a skipped run must leave alone
generations_and_outputs == <<gens, latest_xml, latest_gz, root_out, hash_file>>

\* a step of a run that takes the skipped path: a step before the fetch,
\* the fetch that reports changed=false, or the step that follows it when
\* force=false
SkippedRunStep ==
    \/ BeforeFetchStep
    \/ pc = "fetch" /\ ReportsUnchanged
    \/ pc = "fetched" /\ ~updated /\ ~force

\* C23: a skipped run (unchanged source, force=false) creates no
\* generation, deletes no generation, and leaves the latest references,
\* the well-known output and the stored hash unchanged.
C23_SkippedRunChangesNothing ==
    [][/\ SkippedRunStep => UNCHANGED generations_and_outputs
       /\ (pc = "fetched" /\ ~updated /\ ~force) =>
             (pc' = "done" /\ ret' = "False")]_vars

\* a run was skipped in a data directory that holds a published
\* generation, both latest references and the whole output
C23_Witness ==
    /\ pc = "done" /\ ret = "False"
    /\ hash_file.exists
    /\ latest_xml # 0 /\ latest_gz = latest_xml
    /\ gens[latest_xml].xml_exists
    /\ root_out.exists /\ root_out.written = FileChunks

\* the well-known output is whole and holds the adjusted programs of the
\* source version whose extracted document is in the data directory
SourceVersionPublished ==
    /\ root_out.exists
    /\ root_out.written = FileChunks
    /\ root_out.data.gzip
    /\ root_out.data.doc.programmes =
           process_xml(extracted.doc, NewStats, channel_offsets_of(config),
                       config_default_offset(config), now).doc.programmes

\* C24: if a run fetches a new source version and then fails before
\* publishing it (in adjust or publish), the next non-forced run against
\* the same source content still adjusts and publishes it: a source
\* version whose hash is stored is never left unpublished by subsequent
\* non-forced runs reporting it as unchanged.  Stated for configurations
\* with compress_output, the ones whose runs publish to the well-known
\* output at all.
C24_StoredVersionIsNeverLeftUnpublished ==
    (pc = "done" /\ ret = "False" /\ config.compress_output)
        => SourceVersionPublished

\* C25: whenever run returns success, latest.xml and latest.xml.gz both point
\* at the generation this run published and both targets exist on disk, also
\* after the cleanup of the same run, for every accepted max_backup_files and
\* compress_output
C25_LatestPointAtPublishedGeneration ==
    (pc = "done" /\ ret = "True") =>
        /\ latest_xml = output_name
        /\ latest_gz = output_name
        /\ gens[output_name].xml_exists
        /\ gens[output_name].gz_exists

\* a step of create_output_files
PublishStep == pc \in {"copy", "copying", "links"}

C27_FailedRemovalDoesNotAbort ==
    [][CleanupStep =>
          /\ ret' = "True"
          /\ exit_code(ret') = 0
          /\ removals'.attempted = beyond_retention(gens, config)
          /\ removals'.failed \subseteq removals'.attempted
          /\ \A n \in beyond_retention(gens, config) \ removals'.failed :
                gens'[n] = NoGen
          /\ \A n \in GenNames \ beyond_retention(gens, config) :
                gens'[n] = gens[n]]_vars

\* a run returned True after a cleanup in which the removal of one
\* generation raised and another generation was removed
C27_Witness ==
    /\ pc = "done" /\ ret = "True"
    /\ delete_fault
    /\ removals.failed # {}
    /\ removals.attempted \ removals.failed # {}
    /\ \A n \in removals.attempted \ removals.failed : gens[n] = NoGen

\* no compressed generation file without its uncompressed counterpart
NoOrphanedCompressed(g) ==
    \A n \in DOMAIN g : g[n].gz_exists => g[n].xml_exists

\* C28: cleanup removes generations as pairs: a cleanup that starts with
\* every compressed generation file beside its uncompressed counterpart
\* ends so, no .gz of a deleted generation is left behind
C28_CleanupRemovesPairs ==
    [][(CleanupStep /\ NoOrphanedCompressed(gens))
          => NoOrphanedCompressed(gens')]_vars

\* the attribute text sh_t with zone token z in place of its own
WithZone(z) == [sh_t EXCEPT !.zone = z]

\* C29: the zone token of an input timestamp has no effect on the result:
\* the texts with the same fourteen digits and any other zone token, or
\* none, are rewritten or left alone together and are rewritten to the same
\* text, and every rewritten text ends with the zone token +0000
C29_ZoneTokenHasNoEffect ==
    shpc # "start" =>
        /\ \A z \in ZoneTokens :
              /\ adjust_text(WithZone(z), sh_o1).raised = sh_once.raised
              /\ ~sh_once.raised =>
                     adjust_text(WithZone(z), sh_o1).text = sh_once.text
        /\ ~sh_once.raised => sh_once.text.zone = "+0000"

\* a timestamp with the zone token +0100 was shifted by a non-zero offset
\* to the text its fourteen digits alone are shifted to, ending in +0000
C29_Witness ==
    /\ shpc # "start"
    /\ sh_t.zone = "+0100"
    /\ sh_o1 # 0
    /\ ~sh_once.raised
    /\ sh_once.text # sh_t
    /\ sh_once.text.zone = "+0000"
    /\ sh_once.text = adjust_text(WithZone(""), sh_o1).text

=============================================================================
